---- MODULE Spec2Model ----
(***************************************************************************)
(* Model of the "Sabor & Arte" order-taking backend: the two Express       *)
(* entry points src/index.js (server "index") and src/unnamed/part_000     *)
(* (server "part_000"), their requireAuth middleware, the registration,    *)
(* login, order-submission and order-history handlers, and the Supabase    *)
(* auth / row store they call.  Every await of a handler is a suspension   *)
(* point: the synchronous code up to the await is one step, the return of  *)
(* the external call and the code up to the next await is the next step.   *)
(***************************************************************************)
EXTENDS Naturals, Sequences, FiniteSets, TLC

VARIABLES
  req,                 \* request slot -> the request in flight in that slot
  users,               \* auth service: the identities (id number, email, password)
  perfis,              \* table "perfis": sequence of rows
  pedidos,             \* table "pedidos": sequence of rows
  pedidos_finalizados, \* table "pedidos_finalizados": sequence of rows
  menu                 \* table "menu": set of rows (maintained outside the server)

vars == <<req, users, perfis, pedidos, pedidos_finalizados, menu>>

\* ------------------------------------------------------------------ bounds
NReq == 1       \* request slots of the one-request specifications
NConc == 2      \* request slots of the concurrent specification
MaxRows == 2    \* rows a table accepts before the store rejects inserts
MaxMenu == 3    \* rows of the menu table

Slots == DOMAIN req

\* ------------------------------------------------------- JavaScript values
\* A JS value is a tagged record; a string is a sequence of atoms (chunks of
\* characters), the atom " " being the single space character.
Undef == [t |-> "undefined"]
Null == [t |-> "null"]
Num(n) == [t |-> "number", n |-> n]
Str(s) == [t |-> "string", s |-> s]
Arr(a) == [t |-> "array", a |-> a]
Obj(o) == [t |-> "object", o |-> o]
EmptyObj == Obj([k \in {} |-> Undef])

\* !v of JavaScript: undefined, null, 0 and "" are falsy; arrays and objects
\* (empty ones included) are truthy.
Falsy(v) ==
  \/ v.t \in {"undefined", "null"}
  \/ v.t = "number" /\ v.n = 0
  \/ v.t = "string" /\ v.s = <<>>

\* const { k } = req.body : a key the body lacks reads as undefined.
Get(o, k) == IF k \in DOMAIN o.o THEN o.o[k] ELSE Undef

\* String.prototype.split(' ') on a sequence of atoms: the words between the
\* spaces, empty words included ("" gives [""], " a" gives ["", "a"]).
RECURSIVE Split(_)
Split(s) ==
  IF \A i \in 1..Len(s) : s[i] # " "
    THEN <<s>>
    ELSE LET i == CHOOSE j \in 1..Len(s) :
                    s[j] = " " /\ \A k \in 1..(j - 1) : s[k] # " "
         IN <<SubSeq(s, 1, i - 1)>> \o Split(SubSeq(s, i + 1, Len(s)))

\* JSON.stringify: the text as a sequence of tokens.  An undefined property
\* is left out, an undefined array element is written null.
KeyOrder ==
  <<"item_id", "quantity", "unit_price", "note", "user_id">>

RECURSIVE JSONstringify(_), StringifyElems(_), StringifyProps(_, _)
JSONstringify(v) ==
  CASE v.t = "number" -> <<ToString(v.n)>>
    [] v.t = "string" -> <<"\"">> \o v.s \o <<"\"">>
    [] v.t = "array"  -> <<"[">> \o StringifyElems(v.a) \o <<"]">>
    [] v.t = "object" -> <<"{">> \o StringifyProps(v.o, KeyOrder) \o <<"}">>
    [] OTHER          -> <<"null">>

StringifyElems(a) ==
  IF a = <<>> THEN <<>>
  ELSE JSONstringify(Head(a))
         \o (IF Len(a) > 1 THEN <<",">> ELSE <<>>)
         \o StringifyElems(Tail(a))

StringifyProps(o, keys) ==
  IF keys = <<>> THEN <<>>
  ELSE LET k == Head(keys)
           rest == StringifyProps(o, Tail(keys))
       IN IF k \in DOMAIN o /\ o[k].t # "undefined"
            THEN <<"\"", k, "\"", ":">> \o JSONstringify(o[k])
                   \o (IF rest # <<>> THEN <<",">> ELSE <<>>) \o rest
            ELSE rest

\* ------------------------------------------------------------ auth service
\* The identity and the access token of the n-th identity the service made.
UserId(n) == Str(<<"u" \o ToString(n)>>)
Token(n) == <<"t" \o ToString(n)>>

\* supabase.auth.getUser(token): { data: { user }, error }.  A token of an
\* identity resolves to it, or fails (expired session, outage); any other
\* token fails; the service may also answer no error and no user.
AuthError == [message |-> <<"invalid JWT">>]
GetUserOutcomes(token) ==
  {[error |-> Null, user |-> [id |-> UserId(u.n)]] :
       u \in {x \in users : Token(x.n) = token.s}}
    \cup {[error |-> AuthError, user |-> Null], [error |-> Null, user |-> Null]}

\* ---------------------------------------------------------------- requests
Free == [pc |-> "free"]
NoRes == [status |-> 0]

NewRequest(server, route, authorization, body) ==
  [pc |-> "start", server |-> server, route |-> route,
   headers |-> [authorization |-> authorization], body |-> body,
   userId |-> Undef, token |-> Undef, userAuth |-> Undef, handler |-> FALSE,
   calls |-> <<>>, signUpError |-> Undef, session |-> Undef, newUserId |-> Undef,
   profileError |-> Undef, loginError |-> Undef, error |-> Undef,
   res |-> NoRes, sent |-> 0]

\* res.status(s).json(b): the response is sent and the handler returns.
Respond(q, status, json) ==
  [q EXCEPT !.pc = "done", !.res = [status |-> status, body |-> json],
            !.sent = @ + 1]

\* await of an external call: the call is issued and the handler suspends.
Await(q, call) ==
  [q EXCEPT !.pc = call, !.calls = Append(@, call)]

\* JSON.parse of a token sequence: [ok, v, rest]; ok = FALSE is the SyntaxError
\* JSON.parse throws.
MaxNum == 10
NumOf(tok) == CHOOSE n \in 0..MaxNum : ToString(n) = tok
IsNumToken(tok) == \E n \in 0..MaxNum : ToString(n) = tok
ParseFail == [ok |-> FALSE, v |-> Undef, rest |-> <<>>]
ParseOk(v, rest) == [ok |-> TRUE, v |-> v, rest |-> rest]

RECURSIVE ParseValue(_), ParseElems(_, _), ParseProps(_, _)
ParseValue(ts) ==
  IF ts = <<>> THEN ParseFail
  ELSE LET h == Head(ts)
           n == Len(ts)
       IN CASE h = "[" ->
                 IF n >= 2 /\ ts[2] = "]" THEN ParseOk(Arr(<<>>), SubSeq(ts, 3, n))
                 ELSE ParseElems(Tail(ts), <<>>)
            [] h = "{" ->
                 IF n >= 2 /\ ts[2] = "}" THEN ParseOk(EmptyObj, SubSeq(ts, 3, n))
                 ELSE ParseProps(Tail(ts), [k \in {} |-> Undef])
            [] h = "\"" ->
                 IF \E j \in 2..n : ts[j] = "\""
                   THEN LET j == CHOOSE i \in 2..n :
                                   ts[i] = "\"" /\ \A k \in 2..(i - 1) : ts[k] # "\""
                        IN ParseOk(Str(SubSeq(ts, 2, j - 1)), SubSeq(ts, j + 1, n))
                   ELSE ParseFail
            [] h = "null" -> ParseOk(Null, Tail(ts))
            [] OTHER ->
                 IF IsNumToken(h) THEN ParseOk(Num(NumOf(h)), Tail(ts)) ELSE ParseFail

ParseElems(ts, acc) ==
  LET r == ParseValue(ts)
  IN IF ~r.ok \/ r.rest = <<>> THEN ParseFail
     ELSE IF Head(r.rest) = "]" THEN ParseOk(Arr(Append(acc, r.v)), Tail(r.rest))
     ELSE IF Head(r.rest) = "," THEN ParseElems(Tail(r.rest), Append(acc, r.v))
     ELSE ParseFail

ParseProps(ts, acc) ==
  IF Len(ts) < 5 \/ ts[1] # "\"" \/ ts[3] # "\"" \/ ts[4] # ":" THEN ParseFail
  ELSE LET r == ParseValue(SubSeq(ts, 5, Len(ts)))
           o == (ts[2] :> r.v) @@ acc
       IN IF ~r.ok \/ r.rest = <<>> THEN ParseFail
          ELSE IF Head(r.rest) = "}" THEN ParseOk(Obj(o), Tail(r.rest))
          ELSE IF Head(r.rest) = "," THEN ParseProps(Tail(r.rest), o)
          ELSE ParseFail

JSONparse(s) ==
  LET r == ParseValue(s) IN IF r.ok /\ r.rest = <<>> THEN r ELSE ParseFail

\* ------------------------------------------------------------- requireAuth
Msg(text) == Str(<<text>>)
Err(text) == [error |-> Msg(text)]

\* authHeader && authHeader.split(' ')[1]
ExtractToken(authHeader) ==
  IF Falsy(authHeader) THEN authHeader
  ELSE LET parts == Split(authHeader.s)
       IN IF Len(parts) >= 2 THEN Str(parts[2]) ELSE Undef

requireAuth_NoTokenCheck(q) ==
  Await([q EXCEPT !.token = ExtractToken(q.headers.authorization)], "getUser")

\* requireAuth up to its await: no token is a 401 with no call made.
requireAuth(q) ==
  LET token == ExtractToken(q.headers.authorization)
  IN IF Falsy(token)
       THEN Respond(q, 401, Err(IF q.server = "index"
                                  THEN "Acesso negado."
                                  ELSE "Acesso negado. Token não fornecido."))
       ELSE Await([q EXCEPT !.token = token], "getUser")

\* ------------------------------------------------------- order submission
\* POST /api/pedidos up to its await.
PostPedidos(q) ==
  LET items == Get(q.body, "items")
      total == Get(q.body, "total")
      details == Get(q.body, "details")
  IN IF q.server = "index"
       THEN IF Falsy(items) \/ Falsy(total) \/ Falsy(details)
              THEN Respond(q, 400,
                     Err("Dados incompletos (itens, total ou detalhes faltando)."))
              ELSE Await(q, "insert_pedidos")
       ELSE IF Falsy(items) \/ Falsy(total)
              THEN Respond(q, 400,
                     Err("O carrinho está vazio ou o total está faltando."))
              ELSE Await(q, "insert_pedidos")

PedidoRow_Confirmed(q) ==
  [user_id |-> q.userId,
   items_json |-> Str(JSONstringify(Get(q.body, "items"))),
   total |-> Get(q.body, "total"),
   status |-> Msg("Confirmado"),
   details_json |-> IF q.server = "index"
                      THEN Str(JSONstringify(Get(q.body, "details")))
                      ELSE Null]

PedidoRow_PricedTotal(q) ==
  [user_id |-> q.userId,
   items_json |-> Str(JSONstringify(Get(q.body, "items"))),
   total |-> Num(Get(q.body, "items").a[1].o.quantity.n
                   * Get(q.body, "items").a[1].o.unit_price.n),
   status |-> Msg("Pendente"),
   details_json |-> IF q.server = "index"
                      THEN Str(JSONstringify(Get(q.body, "details")))
                      ELSE Null]

PedidoRow_OwnerFromBody(q) ==
  [user_id |-> IF Falsy(Get(q.body, "user_id")) THEN q.userId
               ELSE Get(q.body, "user_id"),
   items_json |-> Str(JSONstringify(Get(q.body, "items"))),
   total |-> Get(q.body, "total"),
   status |-> Msg("Pendente"),
   details_json |-> IF q.server = "index"
                      THEN Str(JSONstringify(Get(q.body, "details")))
                      ELSE Null]

\* The row POST /api/pedidos hands to insert.
PedidoRow(q) ==
  [user_id |-> q.userId,
   items_json |-> Str(JSONstringify(Get(q.body, "items"))),
   total |-> Get(q.body, "total"),
   status |-> Msg("Pendente"),
   details_json |-> IF q.server = "index"
                      THEN Str(JSONstringify(Get(q.body, "details")))
                      ELSE Null]

\* POST /api/finalizar up to its await (src/index.js only).
PostFinalizar(q) ==
  IF \/ Falsy(Get(q.body, "nome")) \/ Falsy(Get(q.body, "telefone"))
     \/ Falsy(Get(q.body, "endereco")) \/ Falsy(Get(q.body, "pagamento"))
     \/ Falsy(Get(q.body, "itens")) \/ Falsy(Get(q.body, "total"))
    THEN Respond(q, 400, Err("Dados incompletos."))
    ELSE Await(q, "insert_pedidos_finalizados")

\* A property whose value is undefined is left out of the insert: the column
\* is null.
Column(v) == IF v.t = "undefined" THEN Null ELSE v

\* The row POST /api/finalizar hands to insert.
FinalizadoRow(q) ==
  [user_id |-> q.userId,
   nome |-> Get(q.body, "nome"),
   telefone |-> Get(q.body, "telefone"),
   endereco |-> Get(q.body, "endereco"),
   pagamento |-> Get(q.body, "pagamento"),
   observacoes |-> Column(Get(q.body, "observacoes")),
   itens_json |-> Str(JSONstringify(Get(q.body, "itens"))),
   total |-> Get(q.body, "total")]

\* ------------------------------------------------------ registration, login
PostRegister_NoNomeCheck(q) ==
  IF Falsy(Get(q.body, "email")) \/ Falsy(Get(q.body, "password"))
    THEN Respond(q, 400, Err("Campos obrigatórios faltando."))
    ELSE Await(q, "signUp")

\* POST /api/auth/register up to its first await.
PostRegister(q) ==
  IF \/ Falsy(Get(q.body, "email")) \/ Falsy(Get(q.body, "password"))
     \/ Falsy(Get(q.body, "nome"))
    THEN Respond(q, 400, Err("Campos obrigatórios faltando."))
    ELSE Await(q, "signUp")

\* POST /api/auth/login up to its await.
PostLogin(q) ==
  IF Falsy(Get(q.body, "email")) \/ Falsy(Get(q.body, "password"))
    THEN Respond(q, 400, Err("Email e senha são obrigatórios."))
    ELSE Await(q, "signIn")

\* String.prototype.includes on a message made of phrases.
Includes(s, phrase) == \E i \in 1..Len(s.s) : s.s[i] = phrase

\* The catch block of the registration handler.
RegisterCatch(q, error) ==
  IF q.server = "index"
    THEN IF Includes(error.message, "Unable to validate email address")
           THEN Respond(q, 400, Err(
                  "O e-mail informado é inválido. Verifique se está no formato correto."))
         ELSE IF Includes(error.message, "invalid format")
           THEN Respond(q, 400, Err("Formato de e-mail inválido."))
         ELSE Respond(q, 400,
                [error |-> IF Falsy(error.message)
                             THEN Msg("Erro no processo de cadastro.")
                             ELSE error.message])
    ELSE Respond(q, 400,
           [error |-> IF Falsy(error.message)
                        THEN Msg("Erro no processo de cadastro.")
                        ELSE error.message])

\* Registration after supabase.auth.signUp returned { data, error }.
RegisterAfterSignUp_NoThrow(q0, data, error) ==
  LET q == [q0 EXCEPT !.signUpError = error]
  IN Await([q EXCEPT !.newUserId = Null, !.session = Null], "insert_perfis")
RegisterAfterSignUp(q0, data, error) ==
  LET q == [q0 EXCEPT !.signUpError = error]
  IN IF error # Null
       THEN RegisterCatch(q, error)
       ELSE Await([q EXCEPT !.newUserId = data.user.id, !.session = data.session],
                  "insert_perfis")

\* The row registration hands to insert.
PerfilRow(q) ==
  IF q.server = "index"
    THEN [id |-> q.newUserId, nome |-> Get(q.body, "nome"),
          email |-> Get(q.body, "email")]
    ELSE [id |-> q.newUserId, nome |-> Get(q.body, "nome"),
          email |-> Get(q.body, "email"),
          telefone |-> IF Falsy(Get(q.body, "telefone")) THEN Null
                       ELSE Get(q.body, "telefone")]

\* Reading access_token of a null session throws a TypeError.
TypeError == [message |-> Msg("Cannot read properties of null (reading 'access_token')")]

RegisterAfterProfile_Continue(q0, profileError) ==
  LET q == [q0 EXCEPT !.profileError = profileError]
  IN IF q.server = "index" THEN Await(q, "signIn")
     ELSE IF q.session = Null THEN RegisterCatch(q, TypeError)
     ELSE Respond(q, 201, [message |-> Msg("Cadastro realizado com sucesso!"),
                           token |-> q.session.access_token])

\* Registration after the insert into "perfis" returned { error }.
RegisterAfterProfile(q0, profileError) ==
  LET q == [q0 EXCEPT !.profileError = profileError]
  IN IF profileError # Null
       THEN Respond(q, 500, Err(IF q.server = "index"
                                  THEN "Usuário criado, mas falha ao salvar perfil."
                                  ELSE "Usuário criado, mas falha ao salvar dados adicionais."))
     ELSE IF q.server = "index" THEN Await(q, "signIn")
     ELSE IF q.session = Null THEN RegisterCatch(q, TypeError)
     ELSE Respond(q, 201, [message |-> Msg("Cadastro realizado com sucesso!"),
                           token |-> q.session.access_token])

RegisterAfterSignIn_Retry(q0, data, loginError) ==
  LET q == [q0 EXCEPT !.loginError = loginError]
  IN IF loginError # Null
       THEN Await(q, "signIn")
       ELSE Respond(q, 201, [message |-> Msg("Cadastro realizado com sucesso!"),
                             token |-> data.session.access_token])

RegisterAfterSignIn_ProfileMessage(q0, data, loginError) ==
  LET q == [q0 EXCEPT !.loginError = loginError]
  IN IF loginError # Null
       THEN Respond(q, 500, Err("Usuário criado, mas falha ao salvar perfil."))
       ELSE Respond(q, 201, [message |-> Msg("Cadastro realizado com sucesso!"),
                             token |-> data.session.access_token])

\* Registration (src/index.js) after signInWithPassword returned.
RegisterAfterSignIn(q0, data, loginError) ==
  LET q == [q0 EXCEPT !.loginError = loginError]
  IN IF loginError # Null
       THEN Respond(q, 500, Err("Usuário criado, mas falha ao gerar token."))
       ELSE Respond(q, 201, [message |-> Msg("Cadastro realizado com sucesso!"),
                             token |-> data.session.access_token])

\* Login after signInWithPassword returned { data, error }.
LoginAfterSignIn(q0, data, error) ==
  LET q == [q0 EXCEPT !.loginError = error]
  IN IF error # Null
       THEN Respond(q, 401,
              IF q.server = "index" THEN Err("Credenciais inválidas.")
              ELSE [error |-> Str(<<"Credenciais inválidas: ">> \o error.message.s)])
       ELSE Respond(q, 200, [message |-> Msg("Login realizado com sucesso!"),
                             token |-> data.session.access_token])

\* GET /api/pedidos up to its await (src/unnamed/part_000 only).
GetPedidos(q) == Await(q, "select_pedidos")

\* GET /api/menu up to its await.
GetMenu(q) == Await(q, "select_menu")

\* next(): Express runs the route's handler.
RouteHandler(q0) ==
  LET q == [q0 EXCEPT !.handler = TRUE]
  IN CASE q.route = "POST /api/pedidos"   -> PostPedidos(q)
       [] q.route = "POST /api/finalizar" -> PostFinalizar(q)
       [] q.route = "GET /api/pedidos"    -> GetPedidos(q)
       [] q.route = "POST /api/auth/register" -> PostRegister(q)
       [] q.route = "POST /api/auth/login"    -> PostLogin(q)
       [] q.route = "GET /api/menu"           -> GetMenu(q)

\* requireAuth after supabase.auth.getUser(token) returned `out`.
requireAuthResume_IgnoreNoUser(q0, out) ==
  LET q == [q0 EXCEPT !.userAuth = out]
  IN IF out.error # Null
       THEN Respond(q, 401, Err("Token inválido."))
       ELSE RouteHandler(
              [q EXCEPT !.userId = IF out.user = Null THEN Undef ELSE out.user.id])

requireAuthResume(q0, out) ==
  LET q == [q0 EXCEPT !.userAuth = out]
  IN
  IF out.error # Null \/ out.user = Null
    THEN Respond(q, 401, Err(IF q.server = "index"
                               THEN "Token inválido."
                               ELSE "Token inválido ou expirado."))
    ELSE RouteHandler([q EXCEPT !.userId = out.user.id])

\* ------------------------------------------------------------------- store
StoreError == [message |-> <<"store error">>]

\* insert(...).select(): the store adds the generated id and created_at.
StoredRow_FirstId(table, row) ==
  row @@ [id |-> Num(1), created_at |-> Num(Len(table) + 1)]
StoredRow(table, row) ==
  row @@ [id |-> Num(Len(table) + 1), created_at |-> Num(Len(table) + 1)]

\* POST /api/pedidos after insert(...).select() returned { data, error }.
PostPedidosResume_ErrorUnchecked(q0, data, error) ==
  LET q == [q0 EXCEPT !.error = error] IN
  Respond(q, 201,
    [message |-> Msg(IF q.server = "index"
                       THEN "Pedido criado!"
                       ELSE "Pedido finalizado com sucesso!"),
     pedido |-> IF error # Null THEN Undef ELSE data[1]])
PostPedidosResume(q0, data, error) ==
  LET q == [q0 EXCEPT !.error = error] IN
  IF error # Null
    THEN Respond(q, 500, Err(IF q.server = "index"
                               THEN "Erro ao criar pedido."
                               ELSE "Falha ao finalizar o pedido."))
    ELSE Respond(q, 201,
           [message |-> Msg(IF q.server = "index"
                              THEN "Pedido criado!"
                              ELSE "Pedido finalizado com sucesso!"),
            pedido |-> data[1]])

\* POST /api/finalizar after insert(...).select() returned { data, error }.
PostFinalizarResume(q0, data, error) ==
  LET q == [q0 EXCEPT !.error = error] IN
  IF error # Null
    THEN Respond(q, 500, Err("Erro ao finalizar pedido."))
    ELSE Respond(q, 201,
           [message |-> Msg("Pedido finalizado com sucesso!"), pedido |-> data[1]])

\* .order('created_at', { ascending: false }): newest first.
RECURSIVE OrderDesc(_)
OrderDesc(rows) ==
  IF rows = <<>> THEN <<>>
  ELSE LET i == CHOOSE j \in 1..Len(rows) :
                  /\ \A k \in 1..Len(rows) : rows[k].created_at.n <= rows[j].created_at.n
                  /\ \A k \in 1..(j - 1) : rows[k].created_at.n < rows[j].created_at.n
       IN <<rows[i]>> \o OrderDesc(SubSeq(rows, 1, i - 1) \o SubSeq(rows, i + 1, Len(rows)))

\* .select('id, total, status, created_at, items_json')
SelectColumns(row) ==
  [id |-> row.id, total |-> row.total, status |-> row.status,
   created_at |-> row.created_at, items_json |-> row.items_json]

\* from('pedidos').select(...).eq('user_id', userId).order('created_at', desc)
HasOwner_Any(row, userId) == TRUE
HasOwner(row, userId) == row.user_id = userId
SelectPedidos(table, userId) ==
  LET mine == SelectSeq(table, LAMBDA row : HasOwner(row, userId))
      sorted == OrderDesc(mine)
  IN [i \in 1..Len(sorted) |-> SelectColumns(sorted[i])]

\* An exception leaves the async handler: no response is sent by it.
Throw(q) == [q EXCEPT !.pc = "thrown"]

\* What Express does with the rejected promise of an async handler depends on
\* the installed major version, which the sources do not pin: Express 4
\* ignores it and the request never gets a response; Express 5 hands it to
\* the default error handler, which sends a 500 with an HTML body.
ExpressVersions == {4, 5}
Rejection(q, express) ==
  IF q.pc = "thrown" /\ express = 5
    THEN Respond(q, 500, [html |-> Msg("Internal Server Error")])
    ELSE q

\* GET /api/pedidos after the select returned { data, error }.
GetPedidosResume(q0, data, error) ==
  LET q == [q0 EXCEPT !.error = error] IN
  IF error # Null
    THEN Respond(q, 500, Err("Falha ao carregar seus pedidos."))
    ELSE IF \E i \in 1..Len(data) : ~JSONparse(data[i].items_json.s).ok
      THEN Throw(q)
      ELSE Respond(q, 200,
             Arr([i \in 1..Len(data) |->
                    data[i] @@ [items |-> JSONparse(data[i].items_json.s).v]]))

\* from("menu").select("*").order("category").order("id"): ascending by
\* category in the column's collation, a null category last, then by id.
Collation == <<Str(<<>>), Msg("Bebidas"), Msg("Outros"), Msg("constructor")>>
CategoryRank(category) ==
  IF category = Null THEN Len(Collation) + 1
  ELSE CHOOSE i \in 1..Len(Collation) : Collation[i] = category
Precedes(a, b) ==
  \/ CategoryRank(a.category) < CategoryRank(b.category)
  \/ CategoryRank(a.category) = CategoryRank(b.category) /\ a.id.n < b.id.n
RECURSIVE SelectMenu(_)
SelectMenu(table) ==
  IF table = {} THEN <<>>
  ELSE LET first == CHOOSE a \in table : \A b \in table \ {a} : Precedes(a, b)
       IN <<first>> \o SelectMenu(table \ {first})

\* A string as a property key.
RECURSIVE Join(_)
Join(s) == IF s = <<>> THEN "" ELSE Head(s) \o Join(Tail(s))

\* acc starts as {}: acc[cat] also finds what {} inherits from
\* Object.prototype, all of it truthy and none of it an array.
ObjectPrototype ==
  {"constructor", "__proto__", "hasOwnProperty", "isPrototypeOf",
   "propertyIsEnumerable", "toLocaleString", "toString", "valueOf"}

\* menu.reduce(..., {}): [ok, v]; ok = FALSE is the TypeError of
\* acc[cat].push on an inherited property.
SentinelKey(item) ==
  IF Falsy(item.category) THEN "Outros" ELSE Join(item.category.s)
RECURSIVE Reduce(_, _)
Reduce(rows, acc) ==
  IF rows = <<>> THEN [ok |-> TRUE, v |-> Obj(acc)]
  ELSE LET item == Head(rows)
           cat == SentinelKey(item)
       IN IF cat \in DOMAIN acc
            THEN Reduce(Tail(rows), [acc EXCEPT ![cat] = Append(@, item)])
          ELSE IF cat \in ObjectPrototype
            THEN [ok |-> FALSE]
            ELSE Reduce(Tail(rows), acc @@ (cat :> <<item>>))

\* GET /api/menu after the select returned { data, error }.
GetMenuResume(q0, data, error) ==
  LET q == [q0 EXCEPT !.error = error] IN
  IF error # Null
    THEN Respond(q, 500, Err("Falha ao carregar o cardápio."))
    ELSE IF ~Reduce(data, <<>>).ok
      THEN Throw(q)
      ELSE Respond(q, 200, Reduce(data, <<>>).v)

\* ----------------------------------------------------------------- actions
Protected == {"POST /api/pedidos", "POST /api/finalizar", "GET /api/pedidos"}

\* The routes each entry point registers.
Routes(server) ==
  {"POST /api/auth/register", "POST /api/auth/login", "POST /api/pedidos",
   "GET /api/menu"}
    \cup (IF server = "index" THEN {"POST /api/finalizar"} ELSE {"GET /api/pedidos"})

\* Express runs the route's middleware chain up to the first await.
Dispatch(q) ==
  IF q.route \in Protected THEN requireAuth(q) ELSE RouteHandler(q)

\* A request arrives in a free slot.
Receive(r, q) ==
  /\ req[r].pc = "free"
  /\ q.route \in Routes(q.server)
  /\ req' = [req EXCEPT ![r] = Dispatch(q)]
  /\ UNCHANGED <<users, perfis, pedidos, pedidos_finalizados, menu>>

\* supabase.auth.getUser returns to requireAuth.
GetUserReturn(r) ==
  /\ req[r].pc = "getUser"
  /\ \E out \in GetUserOutcomes(req[r].token) :
       req' = [req EXCEPT ![r] = requireAuthResume(req[r], out)]
  /\ UNCHANGED <<users, perfis, pedidos, pedidos_finalizados, menu>>

\* The insert into "pedidos" returns: the row is stored, or the store rejects it.
InsertPedidosReturn(r) ==
  /\ req[r].pc = "insert_pedidos"
  /\ \/ /\ Len(pedidos) < MaxRows
        /\ LET row == StoredRow(pedidos, PedidoRow(req[r]))
           IN /\ pedidos' = Append(pedidos, row)
              /\ req' = [req EXCEPT ![r] = PostPedidosResume(req[r], <<row>>, Null)]
     \/ /\ req' = [req EXCEPT ![r] = PostPedidosResume(req[r], Null, StoreError)]
        /\ UNCHANGED pedidos
  /\ UNCHANGED <<users, perfis, pedidos_finalizados, menu>>

\* The insert into "pedidos_finalizados" returns.
InsertFinalizadosReturn(r) ==
  /\ req[r].pc = "insert_pedidos_finalizados"
  /\ \/ /\ Len(pedidos_finalizados) < MaxRows
        /\ LET row == StoredRow(pedidos_finalizados, FinalizadoRow(req[r]))
           IN /\ pedidos_finalizados' = Append(pedidos_finalizados, row)
              /\ req' = [req EXCEPT ![r] = PostFinalizarResume(req[r], <<row>>, Null)]
     \/ /\ req' = [req EXCEPT ![r] = PostFinalizarResume(req[r], Null, StoreError)]
        /\ UNCHANGED pedidos_finalizados
  /\ UNCHANGED <<users, perfis, pedidos, menu>>

\* The select on "pedidos" returns the caller's rows, or an error.
SelectPedidosReturn(r) ==
  /\ req[r].pc = "select_pedidos"
  /\ \/ \E express \in ExpressVersions :
          req' = [req EXCEPT ![r] =
                    Rejection(GetPedidosResume(req[r],
                                SelectPedidos(pedidos, req[r].userId), Null), express)]
     \/ req' = [req EXCEPT ![r] = GetPedidosResume(req[r], Null, StoreError)]
  /\ UNCHANGED <<users, perfis, pedidos, pedidos_finalizados, menu>>

\* The select on "menu" returns the sorted rows, or an error.
SelectMenuReturn(r) ==
  /\ req[r].pc = "select_menu"
  /\ \/ \E express \in ExpressVersions :
          req' = [req EXCEPT ![r] =
                    Rejection(GetMenuResume(req[r], SelectMenu(menu), Null), express)]
     \/ req' = [req EXCEPT ![r] = GetMenuResume(req[r], Null, StoreError)]
  /\ UNCHANGED <<users, perfis, pedidos, pedidos_finalizados, menu>>

\* supabase.auth.signUp({ email, password }): an email in use is rejected;
\* any other sign-up makes a new identity or is rejected (malformed email,
\* weak password).  The session is null when the email must be confirmed.
Session(n) == [access_token |-> Str(Token(n))]
EmailInUse(email) == \E u \in users : u.email = email
DuplicateEmail == {[message |-> Msg("User already registered")]}
InvalidSignUp ==
  {[message |-> Str(<<"Unable to validate email address", ": ", "invalid format">>)],
   [message |-> Str(<<"Email address ", "invalid format">>)],
   [message |-> Msg("Password should be at least 6 characters")],
   [message |-> Str(<<>>)]}
SignUpRejections(email) ==
  IF EmailInUse(email) THEN DuplicateEmail ELSE InvalidSignUp

SignUpReturn(r) ==
  /\ req[r].pc = "signUp"
  /\ LET email == Get(req[r].body, "email")
         n == Cardinality(users) + 1
     IN \/ /\ ~EmailInUse(email)
           /\ users' = users \cup
                 {[n |-> n, email |-> email, password |-> Get(req[r].body, "password")]}
           /\ \E session \in {Null, Session(n)} :
                req' = [req EXCEPT ![r] = RegisterAfterSignUp(req[r],
                          [user |-> [id |-> UserId(n)], session |-> session], Null)]
        \/ /\ \E error \in SignUpRejections(email) :
                req' = [req EXCEPT ![r] = RegisterAfterSignUp(req[r], Null, error)]
           /\ UNCHANGED users
  /\ UNCHANGED <<perfis, pedidos, pedidos_finalizados, menu>>

\* The insert into "perfis" returns: the row is stored, or the store rejects it.
InsertPerfisReturn(r) ==
  /\ req[r].pc = "insert_perfis"
  /\ \/ /\ Len(perfis) < MaxRows
        /\ perfis' = Append(perfis, PerfilRow(req[r]))
        /\ req' = [req EXCEPT ![r] = RegisterAfterProfile(req[r], Null)]
     \/ /\ req' = [req EXCEPT ![r] = RegisterAfterProfile(req[r], StoreError)]
        /\ UNCHANGED perfis
  /\ UNCHANGED <<users, pedidos, pedidos_finalizados, menu>>

\* supabase.auth.signInWithPassword({ email, password }): a session of the
\* identity with these credentials, or an error (wrong credentials, email
\* not confirmed, outage).
SignInError == [message |-> Msg("Invalid login credentials")]
SignInOutcomes(email, password) ==
  {[data |-> [session |-> Session(u.n)], error |-> Null] :
       u \in {x \in users : x.email = email /\ x.password = password}}
    \cup {[data |-> Null, error |-> SignInError]}

SignInReturn(r) ==
  /\ req[r].pc = "signIn"
  /\ \E out \in SignInOutcomes(Get(req[r].body, "email"), Get(req[r].body, "password")) :
       req' = [req EXCEPT ![r] =
                 IF req[r].route = "POST /api/auth/register"
                   THEN RegisterAfterSignIn(req[r], out.data, out.error)
                   ELSE LoginAfterSignIn(req[r], out.data, out.error)]
  /\ UNCHANGED <<users, perfis, pedidos, pedidos_finalizados, menu>>

\* The client has its response (or gave up on a request that got none): the
\* slot takes the next request.
Close(r) ==
  /\ req[r].pc \in {"done", "thrown"}
  /\ req' = [req EXCEPT ![r] = Free]
  /\ UNCHANGED <<users, perfis, pedidos, pedidos_finalizados, menu>>

\* ------------------------------------------------------------------ inputs
Line1 == Obj([item_id |-> Num(1), quantity |-> Num(2), unit_price |-> Num(5)])
Line2 == Obj([item_id |-> Num(2), quantity |-> Num(1), unit_price |-> Num(3),
              note |-> Msg("sem gelo")])
Details1 == Obj([note |-> Msg("sem cebola")])
Email(n) == Str(<<"user" \o ToString(n), "@", "mail.com">>)
Password(n) == Msg("secret" \o ToString(n))

\* The identities registered before the server starts, and their profiles.
InitUsers == {[n |-> n, email |-> Email(n), password |-> Password(n)] : n \in 1..2}
InitPerfis ==
  [n \in 1..2 |-> [id |-> UserId(n), nome |-> Msg("Cliente"), email |-> Email(n)]]

ValidPedidoBody ==
  Obj([items |-> Arr(<<Line1>>), total |-> Num(10), details |-> Details1])
ValidFinalizarBody ==
  Obj([nome |-> Msg("Ana"), telefone |-> Msg("5551234"), endereco |-> Msg("Rua 1"),
       pagamento |-> Msg("pix"), itens |-> Arr(<<Line1>>), total |-> Num(10)])
ValidBody(route) ==
  CASE route = "POST /api/pedidos"   -> ValidPedidoBody
    [] route = "POST /api/finalizar" -> ValidFinalizarBody
    [] OTHER                         -> EmptyObj

Bearer(n) == Str(<<"Bearer", " ">> \o Token(n))

\* Authorization headers: absent, empty, the Bearer form, another scheme, no
\* scheme word, doubled spaces, an unknown token.
GatewayHeaders ==
  {Undef, Str(<<>>), Bearer(1), Str(<<"Basic", " ">> \o Token(1)),
   Str(Token(1)), Str(<<" ">> \o Token(1)), Str(<<"Bearer", " ", "tX">>),
   Str(<<"Bearer">>), Str(<<"Bearer", " ", " ">> \o Token(1)),
   Str(Token(1) \o <<" ", "Bearer">>)}

Servers == {"index", "part_000"}

GatewayRequests ==
  {NewRequest(s, rt, h, ValidBody(rt)) :
     s \in Servers, rt \in Protected, h \in GatewayHeaders}

\* A body whose keys are the fields given a value.
MkBody(f) == Obj([k \in {x \in DOMAIN f : f[x] # Undef} |-> f[k]])

\* Two customers; every body also carries a client-chosen user_id.
WithUserId(body, id) == Obj(body.o @@ [user_id |-> id])
WithTotal(body, total) == Obj([body.o EXCEPT !.total = total])
TotalOf(n) == Num(IF n = 1 THEN 10 ELSE 7)
ConcurrentRequests ==
  {NewRequest(s, rt, Bearer(n),
              WithTotal(WithUserId(ValidBody(rt), UserId(1)), TotalOf(n))) :
     s \in Servers, rt \in {"POST /api/pedidos", "POST /api/finalizar"}, n \in 1..2}

\* Order submissions and history reads of two customers on part_000.
HistoryRequests ==
  {NewRequest("part_000", rt, Bearer(n), WithUserId(ValidBody(rt), UserId(1))) :
     rt \in {"POST /api/pedidos", "GET /api/pedidos"}, n \in 1..2}

\* POST /api/pedidos bodies: every combination of present, absent, empty and
\* zero fields.
PedidoBodies ==
  {MkBody([items |-> i, total |-> t, details |-> d]) :
     i \in {Undef, Arr(<<>>), Arr(<<Line1>>)},
     t \in {Undef, Num(0), Num(10)},
     d \in {Undef, EmptyObj, Details1}}

\* POST /api/finalizar bodies: the valid body with one field replaced, with
\* and without the optional observacoes.
FinalizarFields ==
  [nome |-> Msg("Ana"), telefone |-> Msg("5551234"), endereco |-> Msg("Rua 1"),
   pagamento |-> Msg("pix"), itens |-> Arr(<<Line1>>), total |-> Num(10),
   observacoes |-> Undef]
BadValues(k) ==
  CASE k = "itens" -> {Undef, Arr(<<>>)}
    [] k = "total" -> {Undef, Num(0)}
    [] k = "observacoes" -> {Undef, Msg("troco")}
    [] OTHER -> {Undef, Str(<<>>)}
FinalizarBodies ==
  UNION {{MkBody([[FinalizarFields EXCEPT ![k] = v] EXCEPT !.observacoes =
                    IF k = "observacoes" THEN v ELSE o]) :
            v \in BadValues(k), o \in {Undef, Msg("troco")}} :
         k \in DOMAIN FinalizarFields}

\* Registration and login bodies: each required field present or absent, an
\* empty name, an optional phone, a wrong password.
RegisterBodies ==
  {MkBody([email |-> e, password |-> p, nome |-> n]) :
     e \in {Undef, Email(1), Email(2)}, p \in {Undef, Password(1)},
     n \in {Undef, Msg("Ana")}}
    \cup {MkBody([email |-> Email(1), password |-> Password(1), nome |-> Str(<<>>)]),
          MkBody([email |-> Email(1), password |-> Password(1), nome |-> Msg("Ana"),
                  telefone |-> Msg("5551234")])}
LoginBodies ==
  {MkBody([email |-> e, password |-> p]) :
     e \in {Undef, Email(1)}, p \in {Undef, Password(1), Password(2)}}
RegisterRequests ==
  {NewRequest(s, "POST /api/auth/register", Undef, b) : s \in Servers, b \in RegisterBodies}
    \cup {NewRequest(s, "POST /api/auth/login", Undef, b) : s \in Servers, b \in LoginBodies}

OrderRequests ==
  {NewRequest(s, "POST /api/pedidos", Bearer(1), b) : s \in Servers, b \in PedidoBodies}
    \cup {NewRequest("index", "POST /api/finalizar", Bearer(1), b) : b \in FinalizarBodies}

\* The protected-route requests the model has past the arrival step.
Live == {r \in Slots : req[r].pc # "free" /\ req[r].route \in Protected}
Unauthenticated(q) ==
  /\ q.res.status = 401
  /\ q.res.body = Err(IF q.server = "index"
                        THEN "Acesso negado."
                        ELSE "Acesso negado. Token não fornecido.")
InvalidCredential(q) ==
  /\ q.res.status = 401
  /\ q.res.body = Err(IF q.server = "index"
                        THEN "Token inválido."
                        ELSE "Token inválido ou expirado.")

\* ---------------------------------------------------------- specifications
InitStore(n) ==
  /\ req = [r \in 1..n |-> Free]
  /\ users = InitUsers
  /\ perfis = InitPerfis
  /\ pedidos = <<>>
  /\ pedidos_finalizados = <<>>
  /\ menu = {}

\* One burst of NConc concurrent order submissions of two customers, every
\* interleaving of their steps; the responses stay in their slots.
Init == InitStore(NConc)

Next ==
  \E r \in Slots :
    \/ \E q \in ConcurrentRequests : Receive(r, q)
    \/ GetUserReturn(r)
    \/ InsertPedidosReturn(r)
    \/ InsertFinalizadosReturn(r)

Spec == Init /\ [][Next]_vars

\* Order submissions and history reads of two customers on part_000.
InitHistory == InitStore(NReq)

NextHistory ==
  \E r \in Slots :
    \/ \E q \in HistoryRequests : Receive(r, q)
    \/ GetUserReturn(r)
    \/ InsertPedidosReturn(r)
    \/ SelectPedidosReturn(r)
    \/ Close(r)

SpecHistory == InitHistory /\ [][NextHistory]_vars

\* One authenticated customer submitting every shape of order body.
InitOrders == InitStore(NReq)

NextOrders ==
  \E r \in Slots :
    \/ \E q \in OrderRequests : Receive(r, q)
    \/ GetUserReturn(r)
    \/ InsertPedidosReturn(r)
    \/ InsertFinalizadosReturn(r)
    \/ Close(r)

SpecOrders == InitOrders /\ [][NextOrders]_vars

\* Registrations and logins against an auth service with no identity yet.
InitRegister ==
  /\ req = [r \in 1..NReq |-> Free]
  /\ users = {}
  /\ perfis = <<>>
  /\ pedidos = <<>>
  /\ pedidos_finalizados = <<>>
  /\ menu = {}

NextRegister ==
  \E r \in Slots :
    \/ \E q \in RegisterRequests : Receive(r, q)
    \/ SignUpReturn(r)
    \/ InsertPerfisReturn(r)
    \/ SignInReturn(r)
    \/ Close(r)

SpecRegister == InitRegister /\ [][NextRegister]_vars

InitGateway == InitStore(NReq)

\* The gateway under every shape of Authorization header.
NextGateway ==
  \E r \in Slots :
    \/ \E q \in GatewayRequests : Receive(r, q)
    \/ GetUserReturn(r)
    \/ InsertPedidosReturn(r)
    \/ InsertFinalizadosReturn(r)
    \/ SelectPedidosReturn(r)
    \/ Close(r)

SpecGateway == InitGateway /\ [][NextGateway]_vars

\* New customers registering on either entry point while orders arrive that
\* present bearer tokens; the responses stay in their slots.
SessionRequests ==
  {NewRequest(s, "POST /api/auth/register", Undef,
              MkBody([email |-> Email(n), password |-> Password(n), nome |-> Msg("Ana")])) :
     s \in Servers, n \in 1..2}
    \cup {NewRequest(s, "POST /api/pedidos", Bearer(n), ValidPedidoBody) :
            s \in Servers, n \in 1..2}

InitSession ==
  /\ req = [r \in 1..NConc |-> Free]
  /\ users = {}
  /\ perfis = <<>>
  /\ pedidos = <<>>
  /\ pedidos_finalizados = <<>>
  /\ menu = {}

NextSession ==
  \E r \in Slots :
    \/ \E q \in SessionRequests : Receive(r, q)
    \/ SignUpReturn(r)
    \/ InsertPerfisReturn(r)
    \/ SignInReturn(r)
    \/ GetUserReturn(r)
    \/ InsertPedidosReturn(r)

SpecSession == InitSession /\ [][NextSession]_vars

\* One customer submitting orders of one and two lines, in both line orders,
\* with a total that matches the lines or not, and reading the history back;
\* the responses stay in their slots.
ItemSeqs == {<<Line1>>, <<Line1, Line2>>, <<Line2, Line1>>}
Totals == {Num(10), Num(7)}
RoundTripRequests ==
  {NewRequest("part_000", "POST /api/pedidos", Bearer(1),
              Obj([items |-> Arr(i), total |-> t])) : i \in ItemSeqs, t \in Totals}
    \cup {NewRequest("index", "POST /api/pedidos", Bearer(1),
                      Obj([items |-> Arr(i), total |-> Num(7), details |-> Details1])) :
            i \in ItemSeqs}
    \cup {NewRequest("part_000", "GET /api/pedidos", Bearer(1), EmptyObj)}

InitRoundTrip == InitStore(NConc)

NextRoundTrip ==
  \E r \in Slots :
    \/ \E q \in RoundTripRequests : Receive(r, q)
    \/ GetUserReturn(r)
    \/ InsertPedidosReturn(r)
    \/ SelectPedidosReturn(r)

SpecRoundTrip == InitRoundTrip /\ [][NextRoundTrip]_vars

\* The same requests against a store in which another writer (the table is
\* shared with the fulfillment side) left an order whose items_json is cut
\* short or empty.
GoodRow(n) ==
  [user_id |-> UserId(n), items_json |-> Str(JSONstringify(Arr(<<Line1>>))),
   total |-> Num(10), status |-> Msg("Pendente"), details_json |-> Null]
Damaged(row, len) == [row EXCEPT !.items_json = Str(SubSeq(@.s, 1, len))]
DamagedTables ==
  {<<StoredRow(<<>>, Damaged(GoodRow(n), len))>> : n \in 1..2, len \in {0, 3}}
    \cup {<<StoredRow(<<>>, GoodRow(1)),
            StoredRow(<<GoodRow(1)>>, Damaged(GoodRow(1), 3))>>}

InitDamaged ==
  /\ req = [r \in 1..NReq |-> Free]
  /\ users = InitUsers
  /\ perfis = InitPerfis
  /\ pedidos \in DamagedTables
  /\ pedidos_finalizados = <<>>
  /\ menu = {}

SpecDamaged == InitDamaged /\ [][NextHistory]_vars

\* Menu reads on either entry point, for every menu of MaxMenu rows whose
\* categories are a label, the sentinel's own label, empty, null, or a name
\* every object inherits.
MenuCategories == {Collation[i] : i \in 1..Len(Collation)} \cup {Null}
MenuTables ==
  {{[id |-> Num(i), category |-> c[i]] : i \in 1..MaxMenu} :
     c \in [1..MaxMenu -> MenuCategories]}
MenuRequests == {NewRequest(s, "GET /api/menu", Undef, EmptyObj) : s \in Servers}

InitMenu ==
  /\ req = [r \in 1..NReq |-> Free]
  /\ users = InitUsers
  /\ perfis = InitPerfis
  /\ pedidos = <<>>
  /\ pedidos_finalizados = <<>>
  /\ menu \in MenuTables

NextMenu ==
  \E r \in Slots :
    \/ \E q \in MenuRequests : Receive(r, q)
    \/ SelectMenuReturn(r)
    \/ Close(r)

SpecMenu == InitMenu /\ [][NextMenu]_vars

\* Every route of both entry points, one request at a time, from an empty
\* auth service and store: a customer registers, logs in, reads the menu,
\* submits orders and reads the history, each external call succeeding or
\* failing.
Menu1 == {[id |-> Num(1), category |-> Msg("Bebidas")], [id |-> Num(2), category |-> Null]}
AllRequests ==
  {NewRequest(s, "POST /api/auth/register", Undef,
              MkBody([email |-> Email(1), password |-> Password(1), nome |-> Msg("Ana")])) :
     s \in Servers}
    \cup {NewRequest(s, "POST /api/auth/login", Undef,
                      MkBody([email |-> Email(1), password |-> Password(1)])) :
            s \in Servers}
    \cup {NewRequest(s, "GET /api/menu", Undef, EmptyObj) : s \in Servers}
    \cup {NewRequest(s, rt, Bearer(1), ValidBody(rt)) : s \in Servers, rt \in Protected}

InitAll ==
  /\ req = [r \in 1..NReq |-> Free]
  /\ users = {}
  /\ perfis = <<>>
  /\ pedidos = <<>>
  /\ pedidos_finalizados = <<>>
  /\ menu = Menu1

NextAll ==
  \E r \in Slots :
    \/ \E q \in AllRequests : Receive(r, q)
    \/ GetUserReturn(r)
    \/ SignUpReturn(r)
    \/ InsertPerfisReturn(r)
    \/ SignInReturn(r)
    \/ InsertPedidosReturn(r)
    \/ InsertFinalizadosReturn(r)
    \/ SelectPedidosReturn(r)
    \/ SelectMenuReturn(r)
    \/ Close(r)

SpecAll == InitAll /\ [][NextAll]_vars

\* ------------------------------------------------------------------ claims
\* C1: a request to an authenticated endpoint that carries no Authorization
\* header is answered 401 Unauthenticated, and from the response on it has
\* made no call to the auth service and none to the store, has not entered
\* the handler and carries no identity.
C1_NoHeaderNoCalls ==
  \A r \in Live :
    req[r].headers.authorization = Undef =>
      /\ req[r].pc = "done"
      /\ Unauthenticated(req[r])
      /\ req[r].calls = <<>>
      /\ ~req[r].handler
      /\ req[r].userId = Undef

C1_Witness ==
  \E r \in Live :
    /\ req[r].headers.authorization = Undef
    /\ req[r].route = "GET /api/pedidos"
    /\ req[r].pc = "done"
    /\ req[r].res.status = 401

\* C2: when the auth service rejects the token (it returns an error, or no
\* user), the response is 401 InvalidCredential, the handler is not entered,
\* no identity is attached and the only call the request made is the token
\* exchange: no store read and no store write.
Rejected(out) == out.error # Null \/ out.user = Null
C2_RejectedTokenStops ==
  \A r \in Live :
    (req[r].userAuth # Undef /\ Rejected(req[r].userAuth)) =>
      /\ req[r].pc = "done"
      /\ InvalidCredential(req[r])
      /\ ~req[r].handler
      /\ req[r].userId = Undef
      /\ req[r].calls = <<"getUser">>

C2_Witness ==
  \E r \in Live :
    /\ req[r].route = "GET /api/pedidos"
    /\ req[r].headers.authorization = Bearer(1)
    /\ req[r].userAuth # Undef
    /\ req[r].userAuth.error # Null
    /\ req[r].pc = "done"
    /\ req[r].res.status = 401

\* C5: a header whose first word is not the scheme Bearer (another scheme, or
\* no scheme word) is never exchanged with the auth service and never gets an
\* identity attached.
FirstWord(h) == Split(h.s)[1]
C5_OnlyBearerExchanged ==
  \A r \in Live :
    (req[r].headers.authorization.t = "string"
       /\ FirstWord(req[r].headers.authorization) # <<"Bearer">>) =>
      /\ \A i \in 1..Len(req[r].calls) : req[r].calls[i] # "getUser"
      /\ req[r].userId = Undef

\* C3: the row an order submission inserts, in "pedidos" or in
\* "pedidos_finalizados", has as user_id the identity the auth service
\* resolved for the token of the inserting request, whatever user_id the body
\* carries and however the submissions interleave; the rows already stored
\* keep their owner.
Last(table) == table[Len(table)]
Inserts(r, call, table, tableAfter) ==
  /\ req[r].pc = call
  /\ req'[r].pc = "done"
  /\ Len(tableAfter) = Len(table) + 1
TokenOwners(q) == {UserId(u.n) : u \in {x \in users : Token(x.n) = q.token.s}}
OwnerIsCaller(r, tableAfter) ==
  /\ Last(tableAfter).user_id = req[r].userAuth.user.id
  /\ Last(tableAfter).user_id \in TokenOwners(req[r])
OwnersKept(table, tableAfter) ==
  \A i \in 1..Len(table) :
    i <= Len(tableAfter) /\ tableAfter[i].user_id = table[i].user_id
C3_OwnerFromIdentity ==
  [][/\ \A r \in Slots :
          /\ Inserts(r, "insert_pedidos", pedidos, pedidos')
               => OwnerIsCaller(r, pedidos')
          /\ Inserts(r, "insert_pedidos_finalizados",
                     pedidos_finalizados, pedidos_finalizados')
               => OwnerIsCaller(r, pedidos_finalizados')
     /\ OwnersKept(pedidos, pedidos')
     /\ OwnersKept(pedidos_finalizados, pedidos_finalizados')]_vars

\* Two submissions in flight together, one of customer 2 whose body names
\* customer 1 as user_id: both answered 201, each row owned by its caller.
C3_Witness ==
  \E r1, r2 \in Slots :
    /\ r1 # r2
    /\ req[r1].pc = "done" /\ req[r1].res.status = 201
    /\ req[r2].pc = "done" /\ req[r2].res.status = 201
    /\ req[r1].route = "POST /api/pedidos" /\ req[r2].route = "POST /api/pedidos"
    /\ req[r1].userId = UserId(1)
    /\ req[r2].userId = UserId(2)
    /\ Get(req[r2].body, "user_id") = UserId(1)
    /\ req[r2].res.body.pedido.user_id = UserId(2)
    /\ Len(pedidos) = 2
    /\ pedidos[1].user_id # pedidos[2].user_id

\* C4: the list an order-history read answers with holds exactly the stored
\* orders whose user_id is the identity resolved for the caller's token: all
\* of them, each once, and no order of another user.
Answers(r) ==
  /\ req[r].pc = "select_pedidos"
  /\ req'[r].pc = "done"
  /\ req'[r].res.status = 200
Listed(r) == req'[r].res.body.a
OwnedIds(userId) ==
  {pedidos[i].id : i \in {j \in 1..Len(pedidos) : pedidos[j].user_id = userId}}
C4_HistoryIsCallersOrders ==
  [][\A r \in Slots :
       Answers(r) =>
         /\ {Listed(r)[i].id : i \in 1..Len(Listed(r))}
              = OwnedIds(req[r].userAuth.user.id)
         /\ Len(Listed(r)) = Cardinality(OwnedIds(req[r].userAuth.user.id))
         /\ req[r].userAuth.user.id \in TokenOwners(req[r])]_vars

\* Customer 1 reads its history while an order of customer 2 is stored: the
\* list holds the one order of customer 1.
C4_Witness ==
  \E r \in Live :
    /\ req[r].route = "GET /api/pedidos"
    /\ req[r].pc = "done" /\ req[r].res.status = 200
    /\ req[r].userId = UserId(1)
    /\ Len(req[r].res.body.a) = 1
    /\ Len(pedidos) = 2
    /\ pedidos[1].user_id = UserId(2)
    /\ pedidos[2].user_id = UserId(1)
    /\ req[r].res.body.a[1].id = pedidos[2].id

\* C6: an authenticated POST /api/pedidos whose items is the empty sequence,
\* its other fields valid, is answered 400 and issues no insert.
Authenticated(r) == r \in Live /\ req[r].handler
CallsOf(q) == {q.calls[i] : i \in 1..Len(q.calls)}
Rejected400(q) ==
  /\ q.pc = "done"
  /\ q.res.status = 400
  /\ "insert_pedidos" \notin CallsOf(q)
  /\ "insert_pedidos_finalizados" \notin CallsOf(q)
C6_EmptyItemsRejected ==
  \A r \in Slots :
    (/\ Authenticated(r)
     /\ req[r].route = "POST /api/pedidos"
     /\ Get(req[r].body, "items") = Arr(<<>>)
     /\ Get(req[r].body, "total") = Num(10)
     /\ Get(req[r].body, "details") = Details1) => Rejected400(req[r])

\* C7: an authenticated order submission with a required field absent, empty
\* or zero is answered 400 and issues no insert, and a submission whose only
\* missing field is the optional observacoes is not rejected.
Missing(v) == Falsy(v) \/ v = Arr(<<>>) \/ v = EmptyObj
Required(q) ==
  IF q.route = "POST /api/finalizar"
    THEN {"nome", "telefone", "endereco", "pagamento", "itens", "total"}
    ELSE IF q.server = "index" THEN {"items", "total", "details"}
    ELSE {"items", "total"}
C7_MissingFieldRejected ==
  \A r \in Slots :
    (Authenticated(r) /\ req[r].route # "GET /api/pedidos") =>
      IF \E k \in Required(req[r]) : Missing(Get(req[r].body, k))
        THEN Rejected400(req[r])
        ELSE req[r].pc = "done" => req[r].res.status # 400

\* C8: a registration request in which email, password or display name is
\* missing is answered 400 ValidationError and makes no call at all: no
\* sign-up, no sign-in, no profile insert.
Registrations ==
  {r \in Slots : req[r].pc # "free" /\ req[r].route = "POST /api/auth/register"}
C8_MissingFieldNoCalls ==
  \A r \in Registrations :
    (\E k \in {"email", "password", "nome"} : Falsy(Get(req[r].body, k))) =>
      /\ req[r].pc = "done"
      /\ req[r].res = [status |-> 400, body |-> Err("Campos obrigatórios faltando.")]
      /\ req[r].calls = <<>>

C8_Witness ==
  \E r \in Registrations :
    /\ Get(req[r].body, "nome") = Undef
    /\ Get(req[r].body, "email") = Email(1)
    /\ Get(req[r].body, "password") = Password(1)
    /\ req[r].pc = "done"
    /\ req[r].res.status = 400

\* C9: when the sign-up succeeded and the profile insert failed, the response
\* is the 500 ProfilePersistFailure, which is none of the responses a rejected
\* sign-up gets; it carries no token, the request made no call after the
\* insert (no sign-in, no deletion), and the identity stays without a profile
\* row.
Failed(error) == error # Undef /\ error # Null
RejectedResponses(q) ==
  {RegisterCatch(q, e).res : e \in DuplicateEmail \cup InvalidSignUp}
ProfilePersistFailure(q) ==
  [status |-> 500,
   body |-> Err(IF q.server = "index"
                  THEN "Usuário criado, mas falha ao salvar perfil."
                  ELSE "Usuário criado, mas falha ao salvar dados adicionais.")]
IdentityOf(q) ==
  {u \in users : /\ UserId(u.n) = q.newUserId
                 /\ u.email = Get(q.body, "email")
                 /\ u.password = Get(q.body, "password")}
ProfilesOf(q) == {i \in 1..Len(perfis) : perfis[i].id = q.newUserId}
C9_ProfileFailureReported ==
  \A r \in Registrations :
    Failed(req[r].profileError) =>
      /\ req[r].pc = "done"
      /\ req[r].res = ProfilePersistFailure(req[r])
      /\ req[r].res \notin RejectedResponses(req[r])
      /\ "token" \notin DOMAIN req[r].res.body
      /\ req[r].calls = <<"signUp", "insert_perfis">>
      /\ IdentityOf(req[r]) # {}
      /\ ProfilesOf(req[r]) = {}

C9_Witness ==
  \E r \in Registrations :
    /\ req[r].server = "index"
    /\ req[r].signUpError = Null
    /\ Failed(req[r].profileError)
    /\ req[r].pc = "done"
    /\ req[r].res.status = 500
    /\ IdentityOf(req[r]) # {}

\* C10: when sign-up and profile insert succeeded and the sign-in of step 3
\* failed, the response is the 500 SessionIssueFailure, which is neither a
\* rejected sign-up's response nor the ProfilePersistFailure; it carries no
\* token, the identity and its profile row stay, and a sign-in with the same
\* email and password can still return a session.
SessionIssueFailure ==
  [status |-> 500, body |-> Err("Usuário criado, mas falha ao gerar token.")]
Registered == {r \in Registrations : req[r].pc = "done" /\ req[r].res.status = 201}
BearerOf(token) == Str(<<"Bearer", " ">> \o token.s)
C11_RegisteredTokenResolves ==
  \A r \in Registered :
    LET token == req[r].res.body.token IN
      /\ token.t = "string"
      /\ IdentityOf(req[r]) # {}
      /\ ProfilesOf(req[r]) # {}
      /\ \A s \in Servers : \A rt \in Protected \cap Routes(s) :
           LET g == requireAuth(NewRequest(s, rt, BearerOf(token), ValidBody(rt))) IN
             /\ g.pc = "getUser"
             /\ g.token = token
             /\ \E out \in GetUserOutcomes(token) : out.user # Null
             /\ \A out \in GetUserOutcomes(token) :
                  out.user # Null =>
                    /\ requireAuthResume(g, out).handler
                    /\ requireAuthResume(g, out).userId = req[r].newUserId
      /\ \A p \in Live :
           req[p].token = token /\ req[p].userId # Undef =>
             req[p].userId = req[r].newUserId

C11_Witness ==
  \E r \in Registered : \E p \in Live :
    /\ req[r].server = "part_000"
    /\ req[p].headers.authorization = BearerOf(req[r].res.body.token)
    /\ req[p].handler
    /\ req[p].userId = req[r].newUserId
    /\ req[p].pc = "done"
    /\ req[p].res.status = 201

\* C12: a registration whose email is already in use (the sign-up is rejected
\* as a duplicate) is answered 400 with the service's message, and its only
\* call is the sign-up: it issues no profile insert.  Whatever registrations
\* came before or run beside it, an email has at most one identity and at
\* most one profile row.
RowsOfEmail(email) == {i \in 1..Len(perfis) : perfis[i].email = email}
Submitted ==
  {r \in Live : /\ req[r].route = "POST /api/pedidos"
                /\ req[r].pc = "done"
                /\ req[r].res.status = 201}
HistoryOf(userId) ==
  GetPedidosResume(NewRequest("part_000", "GET /api/pedidos", Undef, EmptyObj),
                   SelectPedidos(pedidos, userId), Null)
HistoryAnswers ==
  {g \in Live : /\ req[g].route = "GET /api/pedidos"
                /\ req[g].pc = "done"
                /\ req[g].res.status = 200}
ReadsBack(entry, q) ==
  /\ entry.items = Get(q.body, "items")
  /\ entry.total = Get(q.body, "total")
C13_OrderReadsBack ==
  \A r \in Submitted :
    LET id == req[r].res.body.pedido.id
        history == HistoryOf(req[r].userId)
    IN /\ history.pc = "done"
       /\ history.res.status = 200
       /\ \E i \in 1..Len(history.res.body.a) :
            /\ history.res.body.a[i].id = id
            /\ ReadsBack(history.res.body.a[i], req[r])
       /\ \A g \in HistoryAnswers :
            req[g].userId = req[r].userId =>
              \A i \in 1..Len(req[g].res.body.a) :
                req[g].res.body.a[i].id = id =>
                  ReadsBack(req[g].res.body.a[i], req[r])

C13_Witness ==
  \E r \in Submitted : \E g \in HistoryAnswers :
    /\ Get(req[r].body, "items") = Arr(<<Line2, Line1>>)
    /\ Get(req[r].body, "total") = Num(7)
    /\ req[g].userId = req[r].userId
    /\ \E i \in 1..Len(req[g].res.body.a) :
         /\ req[g].res.body.a[i].id = req[r].res.body.pedido.id
         /\ ReadsBack(req[g].res.body.a[i], req[r])

\* C14: when the store returned the caller's rows and one of the caller's
\* stored orders has an items_json that does not parse, the history request
\* ends with an error response (status 4xx or 5xx) and no order list.
HasDamagedOrder(userId) ==
  \E i \in 1..Len(pedidos) :
    /\ pedidos[i].user_id = userId
    /\ ~JSONparse(pedidos[i].items_json.s).ok
C14_DamagedHistoryFails ==
  \A r \in Live :
    (/\ req[r].route = "GET /api/pedidos"
     /\ req[r].error = Null
     /\ HasDamagedOrder(req[r].userId)) =>
      /\ req[r].pc = "done"
      /\ req[r].sent = 1
      /\ req[r].res.status >= 400

\* C15: when the store returned the menu rows sorted by category then id,
\* GET /api/menu answers 200 with a mapping in which every label has exactly
\* the items of that category, an item with a null or empty category being of
\* the category "Outros"; every item is in exactly one group, once; and the
\* ids of each group ascend.
MenuReads ==
  {r \in Slots : /\ req[r].pc # "free"
                 /\ req[r].route = "GET /api/menu"
                 /\ req[r].error = Null}
LabelOf(item) ==
  IF item.category = Null \/ item.category = Str(<<>>)
    THEN "Outros" ELSE Join(item.category.s)
Grouped(groups) ==
  /\ DOMAIN groups = {LabelOf(item) : item \in menu}
  /\ \A k \in DOMAIN groups :
       {groups[k][i] : i \in 1..Len(groups[k])} = {item \in menu : LabelOf(item) = k}
  /\ \A item \in menu :
       Cardinality({<<k, i>> \in UNION {{<<l, j>> : j \in 1..Len(groups[l])} :
                                          l \in DOMAIN groups} :
                      groups[k][i] = item}) = 1
IdsAscend(groups) ==
  \A k \in DOMAIN groups : \A i, j \in 1..Len(groups[k]) :
    i < j => groups[k][i].id.n < groups[k][j].id.n
C15_MenuGrouped ==
  \A r \in MenuReads :
    /\ req[r].pc = "done"
    /\ req[r].res.status = 200
    /\ Grouped(req[r].res.body.o)
    /\ IdsAscend(req[r].res.body.o)

\* C16: when the store rejects the insert of an order submission that passed
\* the gateway and validation, on either entry point and for either orders
\* table, the response is the 500 of that route, it carries an error message
\* and no order, and the step in which the rejection arrives leaves both
\* orders tables as they were.
Submissions ==
  {r \in Live : req[r].route \in {"POST /api/pedidos", "POST /api/finalizar"}}
PersistenceError(q) ==
  [status |-> 500,
   body |-> Err(IF q.route = "POST /api/finalizar" THEN "Erro ao finalizar pedido."
                ELSE IF q.server = "index" THEN "Erro ao criar pedido."
                ELSE "Falha ao finalizar o pedido.")]
InsertRejected(r) ==
  /\ req[r].pc \in {"insert_pedidos", "insert_pedidos_finalizados"}
  /\ Failed(req'[r].error)
C16_RejectedInsertReported ==
  /\ [](\A r \in Submissions :
          Failed(req[r].error) =>
            /\ req[r].pc = "done"
            /\ req[r].res = PersistenceError(req[r])
            /\ DOMAIN req[r].res.body = {"error"}
            /\ req[r].userId # Undef)
  /\ [][\A r \in Slots :
          InsertRejected(r) =>
            /\ pedidos' = pedidos
            /\ pedidos_finalizados' = pedidos_finalizados]_vars

C16_Witness ==
  \E r, s \in Submissions :
    /\ req[r].route = "POST /api/pedidos"
    /\ req[s].route = "POST /api/finalizar"
    /\ Failed(req[r].error)
    /\ Failed(req[s].error)
    /\ req[r].res.status = 500
    /\ req[s].res.status = 500
    /\ pedidos = <<>>
    /\ pedidos_finalizados = <<>>

\* C17: within one request no external call is issued twice (token exchange,
\* sign-up, profile insert, sign-in, order insert, menu read, history read);
\* a request one of whose calls failed has its error response, the failed
\* call is the last call it made, and no later step adds a call to it.
Requests == {r \in Slots : req[r].pc # "free"}
CallFailed(q) ==
  \/ q.userAuth # Undef /\ Rejected(q.userAuth)
  \/ Failed(q.signUpError)
  \/ Failed(q.profileError)
  \/ Failed(q.loginError)
  \/ Failed(q.error)
FailedCall(q) ==
  IF Failed(q.error)
    THEN CASE q.route = "POST /api/pedidos"   -> "insert_pedidos"
           [] q.route = "POST /api/finalizar" -> "insert_pedidos_finalizados"
           [] q.route = "GET /api/pedidos"    -> "select_pedidos"
           [] q.route = "GET /api/menu"       -> "select_menu"
  ELSE IF Failed(q.loginError) THEN "signIn"
  ELSE IF Failed(q.profileError) THEN "insert_perfis"
  ELSE IF Failed(q.signUpError) THEN "signUp"
  ELSE "getUser"
C17_NoRetries ==
  /\ [](\A r \in Requests :
          /\ \A i, j \in 1..Len(req[r].calls) :
               i # j => req[r].calls[i] # req[r].calls[j]
          /\ CallFailed(req[r]) =>
               /\ req[r].pc = "done"
               /\ req[r].sent = 1
               /\ req[r].res.status >= 400
               /\ Last(req[r].calls) = FailedCall(req[r]))
  /\ [][\A r \in Requests :
          CallFailed(req[r]) => req'[r].pc = "free" \/ req'[r] = req[r]]_vars

C17_Witness ==
  \E r \in Requests :
    /\ req[r].route = "POST /api/auth/register"
    /\ Failed(req[r].loginError)
    /\ req[r].calls = <<"signUp", "insert_perfis", "signIn">>
    /\ req[r].pc = "done"
    /\ req[r].res.status = 500

\* C18: in every state of a burst of concurrent order submissions, each orders
\* table has as many rows as there are 201 responses of its route (a request
\* answered with an error, or not answered yet, has added none); each 201
\* carries the row stored under its id, with the generated id and timestamp
\* and with the owner, items and total of its own request; and no two
\* responses name the same row.
Created(route) ==
  {r \in Live : /\ req[r].route = route
                /\ req[r].pc = "done"
                /\ req[r].res.status = 201}
OwnRow(r, table, itemsColumn, itemsField) ==
  LET row == req[r].res.body.pedido IN
    /\ {"id", "created_at"} \subseteq DOMAIN row
    /\ row.id.n \in 1..Len(table)
    /\ table[row.id.n] = row
    /\ row.user_id = req[r].userId
    /\ row.total = Get(req[r].body, "total")
    /\ row[itemsColumn] = Str(JSONstringify(Get(req[r].body, itemsField)))
    /\ \A s \in Created(req[r].route) \ {r} : req[s].res.body.pedido.id # row.id
C18_OneRowPerSuccess ==
  /\ Len(pedidos) = Cardinality(Created("POST /api/pedidos"))
  /\ Len(pedidos_finalizados) = Cardinality(Created("POST /api/finalizar"))
  /\ \A r \in Created("POST /api/pedidos") :
       OwnRow(r, pedidos, "items_json", "items")
  /\ \A r \in Created("POST /api/finalizar") :
       OwnRow(r, pedidos_finalizados, "itens_json", "itens")

C18_Witness ==
  \E r \in Created("POST /api/pedidos") : \E f \in Submissions :
    /\ req[r].userId = UserId(2)
    /\ req[f].userId = UserId(1)
    /\ req[f].route = "POST /api/pedidos"
    /\ Failed(req[f].error)
    /\ req[f].res.status = 500
    /\ req[r].res.body.pedido.total = TotalOf(2)
    /\ req[r].res.body.pedido.id = Num(1)
    /\ Len(pedidos) = 1

\* C19: in every reachable state every row of "pedidos" has status
\* "Pendente"; and every step of every handler leaves the rows that exist in
\* "perfis", "pedidos" and "pedidos_finalizados" in place and unchanged: a
\* table only grows at its end.
Kept(table, tableAfter) ==
  /\ Len(tableAfter) >= Len(table)
  /\ SubSeq(tableAfter, 1, Len(table)) = table
C19_PendingAndInsertOnly ==
  /\ [](\A i \in 1..Len(pedidos) : pedidos[i].status = Msg("Pendente"))
  /\ [][/\ Kept(perfis, perfis')
         /\ Kept(pedidos, pedidos')
         /\ Kept(pedidos_finalizados, pedidos_finalizados')]_vars

C19_Witness ==
  /\ Len(perfis) = 1
  /\ Len(pedidos) = 2
  /\ pedidos[1].details_json = Null
  /\ pedidos[2].details_json # Null
  /\ Len(pedidos_finalizados) = 1
  /\ \E r \in Requests :
       /\ req[r].route = "GET /api/pedidos"
       /\ req[r].pc = "done"
       /\ req[r].res.status = 200

\* C20: no request has two responses, and a request whose handler has run to
\* its end (no external call of it is outstanding and no code of it is left
\* to run) has exactly one response.
C20_ExactlyOneResponse ==
  \A r \in Requests :
    /\ req[r].sent <= 1
    /\ req[r].pc \in {"done", "thrown"} => req[r].sent = 1

====
